---- MODULE Spec2Model ----
(***************************************************************************)
(* CLDRPluralRuleParser.js: pluralRuleParser(rule, number), a backtracking *)
(* recursive-descent evaluator of CLDR plural rules built from parser      *)
(* combinators that share one cursor, pos.                                 *)
(*                                                                         *)
(* The rule text is a sequence of one-character strings.  JavaScript       *)
(* values are tagged records [t, v]; a parser invocation is a frame on an  *)
(* explicit call stack, and every call and every return is one step.       *)
(* debug() only prints and transform() is never used: neither is modelled.*)
(***************************************************************************)
EXTENDS Integers, Sequences, FiniteSets, TLC

\* ------------------------------------------------------------------ bounds

\* Operands are 0..MaxOperand (each also with a fractional part).
MaxOperand == 3
\* Digit literals of the generated rules are 0..MaxDigit.
MaxDigit == 2
\* Calls made between a call and its repetition in SpecCalls.
MaxEarlier == 1

\* ------------------------------------------------------- JavaScript values

Null == [t |-> "null", v |-> 0]
NaN == [t |-> "nan", v |-> 0]
Num(k) == [t |-> "num", v |-> k]
Str(s) == [t |-> "str", v |-> s]
Bool(b) == [t |-> "bool", v |-> b]
Arr(a) == [t |-> "arr", v |-> a]

IsNull(x) == x.t = "null"

\* a === b for the values that meet in this program: no two arrays are the
\* same object, NaN equals nothing, values of different types differ.
StrictEq(a, b) ==
    /\ a.t = b.t
    /\ a.t \in {"num", "str", "bool", "null"}
    /\ a.v = b.v

\* ToBoolean: null, false, NaN, 0 and "" are falsy; arrays are truthy.
Truthy(x) ==
    CASE x.t = "null" -> FALSE
      [] x.t = "nan" -> FALSE
      [] x.t = "bool" -> x.v
      [] x.t = "num" -> x.v # 0
      [] x.t = "str" -> x.v # <<>>
      [] OTHER -> TRUE

\* a && b and a || b return one of their operands.
JSAnd(a, b) == IF Truthy(a) THEN b ELSE a
JSOr(a, b) == IF Truthy(a) THEN a ELSE b

\* a % b on numbers that are never negative here: NaN when b is 0.
JSMod(a, b) ==
    IF a.t # "num" \/ b.t # "num" \/ b.v = 0 THEN NaN ELSE Num(a.v % b.v)

\* ------------------------------------------------------------ characters

DigitChars == <<"0", "1", "2", "3", "4", "5", "6", "7", "8", "9">>
DigitSet == {DigitChars[k] : k \in 1..10}
SpaceSet == {" ", "\t"}

DigitValue(c) == (CHOOSE k \in 1..10 : DigitChars[k] = c) - 1

\* The length of the longest run of characters of class cls at the front of s.
RECURSIVE PrefixLen(_, _)
PrefixLen(s, cls) ==
    IF s = <<>> \/ Head(s) \notin cls THEN 0 ELSE 1 + PrefixLen(Tail(s), cls)

\* Number.prototype.toString of a non-negative integer.
RECURSIVE IntToString(_)
IntToString(k) ==
    IF k < 10 THEN <<DigitChars[k + 1]>>
    ELSE IntToString(k \div 10) \o <<DigitChars[(k % 10) + 1]>>

\* The value of a run of decimal digits.
RECURSIVE DigitsValue(_)
DigitsValue(s) ==
    IF s = <<>> THEN 0
    ELSE 10 * DigitsValue(SubSeq(s, 1, Len(s) - 1)) + DigitValue(s[Len(s)])

\* parseInt(s, 10) of a string without sign or leading blanks: the value of
\* its leading digits, NaN when it has none.
ParseIntStr(s) ==
    LET k == PrefixLen(s, DigitSet)
    IN IF k = 0 THEN NaN ELSE Num(DigitsValue(SubSeq(s, 1, k)))

\* The operand is a number with one optional fractional digit.
NumberToString(x) ==
    IF x.tenths = 0 THEN IntToString(x.whole)
    ELSE IntToString(x.whole) \o <<".">> \o IntToString(x.tenths)

\* parseInt(x, 10): the argument is first converted to a string.
parseInt(x) ==
    CASE x.t = "str" -> ParseIntStr(x.v)
      [] x.t = "num" -> ParseIntStr(IntToString(x.v))
      [] x.t = "operand" -> ParseIntStr(NumberToString(x.v))
      [] OTHER -> NaN

\* rule.substr(from, len), from counted from 0.
substr(s, from, len) ==
    SubSeq(s, from + 1, IF from + len > Len(s) THEN Len(s) ELSE from + len)

\* JavaScript's result[k]: arrays are indexed from 0.
At(result, k) == result[k + 1]

Undefined == [t |-> "undefined", v |-> 0]

\* ------------------------------------------------------- the parser table

S_not == <<"n", "o", "t">>

\* makeStringParser(s): the literal of each string parser.
Literal ==
    ("_n_" :> <<"n">>) @@ ("_is_" :> <<"i", "s">>) @@
    ("_mod_" :> <<"m", "o", "d">>) @@ ("_not_" :> S_not) @@
    ("_in_" :> <<"i", "n">>) @@
    ("_within_" :> <<"w", "i", "t", "h", "i", "n">>) @@
    ("_range_" :> <<".", ".">>) @@ ("_or_" :> <<"o", "r">>) @@
    ("_and_" :> <<"a", "n", "d">>)

\* makeRegexParser(regex): the character class of /^\s+/ and of /^\d+/.
RegexClass == ("whitespace" :> SpaceSet) @@ ("digits" :> DigitSet)

\* choice([...]): the alternatives of each choice parser, in order.
Alternatives ==
    ("expression" :> <<"mod", "n">>) @@
    ("relation" :> <<"is", "_in", "within">>) @@
    ("condition" :> <<"and", "or", "relation">>)

\* The invocation record of parser p entered with the cursor at `at`.
\* n is nOrMore's minimum, 0 in its only use, nOrMore(0, not).
Frame(p, items, at) ==
    [p |-> p, items |-> items, n |-> 0, orig |-> at, i |-> 0, res |-> <<>>]

\* The frame of a call of the parser named p.
ParserFrame(p, at) ==
    CASE p \in DOMAIN Alternatives -> Frame(p, Alternatives[p], at)
      [] p = "nOrMore" -> Frame(p, <<"not">>, at)
      [] OTHER -> Frame(p, <<>>, at)

\* ------------------------------------------------------------------ state

VARIABLES
    plan,       \* the evaluations to make: a sequence of [rc, number]
    call,       \* the index in plan of the current evaluation
    hist,       \* the values returned by the evaluations already made
    rule,       \* the rule argument, a sequence of characters
    number,     \* the number argument
    pos,        \* var pos: the cursor shared by all parsers
    global_i,   \* the undeclared loop counter i of range(), a global
    stack,      \* the invocations in progress, innermost first
    pc,         \* "ready", "call", "ret" or "done"
    ret,        \* the value the last finished invocation returned
    result      \* the value pluralRuleParser returned

vars ==
    <<plan, call, hist, rule, number, pos, global_i, stack, pc, ret, result>>

Top == Head(stack)

Running(p) == pc \in {"call", "ret"} /\ stack # <<>> /\ Top.p = p

\* Call the parser of frame f from the invocation `caller` (the updated top).
Invoke(f, caller) ==
    /\ stack' = <<f, caller>> \o Tail(stack)
    /\ pc' = "call"
    /\ UNCHANGED <<pos, ret>>

\* The innermost invocation returns v and leaves the cursor at p.
Return(v, p) ==
    /\ stack' = Tail(stack)
    /\ ret' = v
    /\ pos' = p
    /\ pc' = "ret"

Inputs == <<plan, call, hist, rule, number, result>>

\* -------------------------------------------------- the combinator engine

\* The parser returned by makeStringParser(s), run on text at cursor `at`.
StringMatch(s, text, at) ==
    IF substr(text, at, Len(s)) = s
    THEN [result |-> Str(s), pos |-> at + Len(s)]
    ELSE [result |-> Null, pos |-> at]

\* The parser returned by makeRegexParser(/^c+/), c ranging over class cls.
RegexMatch(cls, text, at) ==
    LET k == PrefixLen(substr(text, at, Len(text)), cls)
    IN IF k = 0
       THEN [result |-> Null, pos |-> at]
       ELSE [result |-> Str(substr(text, at, k)), pos |-> at + k]

makeStringParser ==
    /\ pc = "call" /\ stack # <<>> /\ Top.p \in DOMAIN Literal
    /\ LET m == StringMatch(Literal[Top.p], rule, pos)
       IN Return(m.result, m.pos)
    /\ UNCHANGED <<Inputs, global_i>>

makeRegexParser ==
    /\ pc = "call" /\ stack # <<>> /\ Top.p \in DOMAIN RegexClass
    /\ LET m == RegexMatch(RegexClass[Top.p], rule, pos)
       IN Return(m.result, m.pos)
    /\ UNCHANGED <<Inputs, global_i>>

\* sequence(parserSyntax): what the loop does once `got` results are in.
SequenceStep(fr, got) ==
    IF Len(got) = Len(fr.items)
    THEN Return(Arr(got), pos)
    ELSE Invoke(ParserFrame(fr.items[Len(got) + 1], pos),
                [fr EXCEPT !.res = got, !.i = Len(got)])

sequence ==
    /\ Running("sequence")
    /\ IF pc = "call" THEN SequenceStep(Top, <<>>)
       ELSE IF IsNull(ret) THEN Return(Null, Top.orig)
       ELSE SequenceStep(Top, Append(Top.res, ret))
    /\ UNCHANGED <<Inputs, global_i>>

\* choice(parserSyntax): try alternative k + 1, or give up after the last.
ChoiceStep(fr, k) ==
    IF k = Len(fr.items)
    THEN Return(Null, pos)
    ELSE Invoke(ParserFrame(fr.items[k + 1], pos), [fr EXCEPT !.i = k])

choice ==
    /\ pc \in {"call", "ret"} /\ stack # <<>> /\ Top.p \in DOMAIN Alternatives
    /\ IF pc = "call" THEN ChoiceStep(Top, 0)
       ELSE IF ~IsNull(ret) THEN Return(ret, pos)
       ELSE ChoiceStep(Top, Top.i + 1)
    /\ UNCHANGED <<Inputs, global_i>>

\* The loop without its "parsed = p()": p is never called again.
nOrMoreWithoutCall(fr, parsed) ==
    IF ~IsNull(parsed)
    THEN /\ stack' = <<[fr EXCEPT !.res = Append(fr.res, parsed)]>> \o Tail(stack)
         /\ UNCHANGED <<pc, pos, ret>>
    ELSE IF Len(fr.res) < fr.n THEN Return(Null, fr.orig)
    ELSE Return(Arr(fr.res), pos)

\* nOrMore(n, p): the while loop after p returned `parsed`.
nOrMoreStep(fr, parsed) ==
    IF ~IsNull(parsed)
    THEN Invoke(ParserFrame(fr.items[1], pos),
                [fr EXCEPT !.res = Append(fr.res, parsed)])
    ELSE IF Len(fr.res) < fr.n THEN Return(Null, fr.orig)
    ELSE Return(Arr(fr.res), pos)

nOrMore ==
    /\ Running("nOrMore")
    /\ IF pc = "call" THEN Invoke(ParserFrame(Top.items[1], pos), Top)
       ELSE nOrMoreStep(Top, ret)
    /\ UNCHANGED <<Inputs, global_i>>

\* -------------------------------------------------- the grammar productions

\* A production: run sequence(items); fail when it fails, else return
\* value, which is computed from the sequence's result, ret.v.
Production(name, items, value) ==
    /\ Running(name)
    /\ IF pc = "call" THEN Invoke(Frame("sequence", items, pos), Top)
       ELSE Return(IF IsNull(ret) THEN Null ELSE value, pos)
    /\ UNCHANGED <<Inputs, global_i>>

n ==
    /\ Running("n")
    /\ IF pc = "call" THEN Invoke(ParserFrame("_n_", pos), Top)
       ELSE Return(IF IsNull(ret) THEN ret
                   ELSE parseInt([t |-> "operand", v |-> number]), pos)
    /\ UNCHANGED <<Inputs, global_i>>

modValue(result_) == JSMod(parseInt(At(result_, 0)), parseInt(At(result_, 4)))

mod ==
    Production("mod", <<"n", "whitespace", "_mod_", "whitespace", "digits">>,
               modValue(ret.v))

notValue(result_) == At(result_, 1)

not == Production("not", <<"whitespace", "_not_">>, notValue(ret.v))

isValue(result_) ==
    IF StrictEq(At(result_, 3), Str(S_not))
    THEN Bool(~StrictEq(At(result_, 0), parseInt(At(result_, 5))))
    ELSE Bool(StrictEq(At(result_, 0), parseInt(At(result_, 5))))

is ==
    Production("is", <<"expression", "whitespace", "_is_", "nOrMore",
                       "whitespace", "digits">>, isValue(ret.v))

\* The loop with "i < right": the right end is left out.
rangeLoopExclusive(left, right, i0) ==
    [array |-> [k \in 1..(right - left) |-> Num(left + k - 1)],
     i |-> Num(IF left < right THEN right ELSE left)]

\* The for loop of range(): the array built and the value i is left with.
\* i is assigned left first, whatever it held (i0) before.
rangeLoop(left, right, i0) ==
    [array |-> [k \in 1..(right - left + 1) |-> Num(left + k - 1)],
     i |-> Num(IF left <= right THEN right + 1 ELSE left)]

rangeValue(result_, i0) ==
    rangeLoop(parseInt(At(result_, 0)).v, parseInt(At(result_, 2)).v, i0)

range ==
    /\ Running("range")
    /\ IF pc = "call"
       THEN /\ Invoke(Frame("sequence", <<"digits", "_range_", "digits">>, pos),
                      Top)
            /\ UNCHANGED global_i
       ELSE IF IsNull(ret)
       THEN Return(Null, pos) /\ UNCHANGED global_i
       ELSE LET r == rangeValue(ret.v, global_i)
            IN Return(Arr(r.array), pos) /\ global_i' = r.i
    /\ UNCHANGED Inputs

\* Whether some range_list[i] === value.
Member(range_list, value) ==
    \E k \in 1..Len(range_list.v) : StrictEq(range_list.v[k], value)

inValue(result_) ==
    IF Member(At(result_, 5), At(result_, 0))
    THEN Bool(~StrictEq(At(result_, 1), Str(S_not)))
    ELSE Bool(StrictEq(At(result_, 1), Str(S_not)))

_in ==
    Production("_in", <<"expression", "nOrMore", "whitespace", "_in_",
                        "whitespace", "range">>, inValue(ret.v))

\* within ending with "return false".
withinValueFalse(result_) ==
    IF Member(At(result_, 4), At(result_, 0)) THEN Bool(TRUE) ELSE Bool(FALSE)

withinValue(result_) ==
    IF Member(At(result_, 4), At(result_, 0)) THEN Bool(TRUE) ELSE Null

within ==
    Production("within", <<"expression", "whitespace", "_within_",
                           "whitespace", "range">>, withinValue(ret.v))

andValue(result_) ==
    IF Truthy(Arr(result_)) THEN JSAnd(At(result_, 0), At(result_, 4)) ELSE Null

and ==
    Production("and", <<"relation", "whitespace", "_and_", "whitespace",
                        "condition">>, andValue(ret.v))

\* or written with the && of and.
orValueAnd(result_) ==
    IF Truthy(Arr(result_)) THEN JSAnd(At(result_, 0), At(result_, 4)) ELSE Null

orValue(result_) ==
    IF Truthy(Arr(result_)) THEN JSOr(At(result_, 0), At(result_, 4)) ELSE Null

or ==
    Production("or", <<"relation", "whitespace", "_or_", "whitespace",
                       "condition">>, orValue(ret.v))

start ==
    /\ Running("start")
    /\ IF pc = "call" THEN Invoke(ParserFrame("condition", pos), Top)
       ELSE Return(ret, pos)
    /\ UNCHANGED <<Inputs, global_i>>

\* ------------------------------------------------------------ the function

\* The cursor kept from the call before.
StartPosKept(previous) == previous

\* var pos = 0: every call declares its own cursor.
StartPos(previous) == 0

pluralRuleParser ==
    /\ pc = "ready"
    /\ pos' = StartPos(pos)
    /\ stack' = <<ParserFrame("start", StartPos(pos))>>
    /\ pc' = "call"
    /\ UNCHANGED <<Inputs, global_i, ret>>

\* The end of pluralRuleParser: the body of the if is empty (its throw is
\* commented out), so result is returned whatever the test finds.
ReturnValue(result_, pos_, length) ==
    IF IsNull(result_) \/ pos_ # length THEN result_ ELSE result_

return ==
    /\ pc = "ret" /\ stack = <<>>
    /\ result' = ReturnValue(ret, pos, Len(rule))
    /\ hist' = Append(hist, ReturnValue(ret, pos, Len(rule)))
    /\ pc' = "done"
    /\ UNCHANGED <<plan, call, rule, number, pos, global_i, stack, ret>>

\* ------------------------------------------------------------- the inputs

\* A relation as it is written: kind "is", "in", "within" or "junk" (text that
\* is no relation); neg: with "not"; m: the modulus of "n mod m", -1 for
\* plain "n"; d: the digits of "is"; l, r: the ends of the range.
Rel(kind, neg, m, d, l, r) ==
    [kind |-> kind, neg |-> neg, m |-> m, d |-> d, l |-> l, r |-> r]

Text_n == <<"n">>
Text_mod == <<" ", "m", "o", "d", " ">>
Text_is == <<" ", "i", "s">>
Text_not == <<" ", "n", "o", "t">>
Text_in == <<" ", "i", "n", " ">>
Text_within == <<" ", "w", "i", "t", "h", "i", "n", " ">>
Text_dots == <<".", ".">>
Text_and == <<" ", "a", "n", "d", " ">>
Text_or == <<" ", "o", "r", " ">>
Text_junk == <<"x">>
Text_extra == <<" ", "x">>

RenderExpr(m) == IF m = -1 THEN Text_n ELSE Text_n \o Text_mod \o IntToString(m)

RenderRel(q) ==
    CASE q.kind = "is" ->
           RenderExpr(q.m) \o Text_is \o (IF q.neg THEN Text_not ELSE <<>>)
             \o <<" ">> \o IntToString(q.d)
      [] q.kind = "in" ->
           RenderExpr(q.m) \o (IF q.neg THEN Text_not ELSE <<>>) \o Text_in
             \o IntToString(q.l) \o Text_dots \o IntToString(q.r)
      [] q.kind = "within" ->
           RenderExpr(q.m) \o Text_within
             \o IntToString(q.l) \o Text_dots \o IntToString(q.r)
      [] OTHER -> Text_junk

\* A rule as it is written: relations rels joined by the keywords ops
\* (Len(ops) = Len(rels) - 1), then the text tail.
Rule(rels, ops, tail) == [rels |-> rels, ops |-> ops, tail |-> tail]

RECURSIVE RenderChain(_, _)
RenderChain(rels, ops) ==
    IF Len(rels) = 1 THEN RenderRel(rels[1])
    ELSE RenderRel(rels[1])
           \o (IF ops[1] = "and" THEN Text_and ELSE Text_or)
           \o RenderChain(Tail(rels), Tail(ops))

Render(rc) == RenderChain(rc.rels, rc.ops) \o rc.tail

Operand(whole, tenths) == [whole |-> whole, tenths |-> tenths]
Input(rc, x) == [rc |-> rc, number |-> x]

Digits == 0..MaxDigit
Moduli == {-1, 0, MaxDigit}
Ops == {"and", "or"}
Junk == Rel("junk", FALSE, -1, 0, 0, 0)

IsRels == {Rel("is", neg, m, d, 0, 0) : neg \in BOOLEAN, m \in Moduli, d \in Digits}
InRels ==
    {Rel("in", q[1], q[2], 0, q[3], q[4]) :
        q \in BOOLEAN \X Moduli \X Digits \X Digits}
WithinRels ==
    {Rel("within", FALSE, q[1], 0, q[2], q[3]) : q \in Moduli \X Digits \X Digits}
Relations == IsRels \cup InRels \cup WithinRels

\* The relations the chains are built from.
Atoms ==
    {Rel("is", neg, -1, d, 0, 0) : neg \in BOOLEAN, d \in {1, MaxDigit}}
      \cup {Rel("in", FALSE, -1, 0, 0, 1), Rel("within", FALSE, -1, 0, 1, MaxDigit)}

Operands == {Operand(w, t) : w \in 0..MaxOperand, t \in {0, 5}}
WholeOperands == {Operand(w, 0) : w \in 0..MaxOperand}

SingleRules ==
    {Rule(<<q>>, <<>>, tail) : q \in Relations \cup {Junk}, tail \in {<<>>, Text_extra}}
PairRules ==
    {Rule(<<q[1], q[2]>>, <<q[3]>>, <<>>) : q \in Atoms \X (Atoms \cup {Junk}) \X Ops}

\* "n mod 10 is 1 and n is not 11" for 11 and for 21.
Russian ==
    Rule(<<Rel("is", FALSE, 10, 1, 0, 0), Rel("is", TRUE, -1, 11, 0, 0)>>,
         <<"and">>, <<>>)

SingleInputs ==
    {Input(rc, x) : rc \in SingleRules, x \in Operands}
      \cup {Input(rc, x) : rc \in PairRules, x \in WholeOperands}
      \cup {Input(Russian, Operand(w, 0)) : w \in {11, 21}}

\* ------------------------------------------------------ the specification

InitPlan(p) ==
    /\ plan = p
    /\ call = 1
    /\ hist = <<>>
    /\ rule = Render(p[1].rc)
    /\ number = p[1].number
    /\ pos = 0
    /\ global_i = Undefined
    /\ stack = <<>>
    /\ pc = "ready"
    /\ ret = Null
    /\ result = Null

Init == \E inp \in SingleInputs : InitPlan(<<inp>>)

Next ==
    \/ pluralRuleParser
    \/ start
    \/ choice
    \/ sequence
    \/ nOrMore
    \/ makeStringParser
    \/ makeRegexParser
    \/ n
    \/ mod
    \/ not
    \/ is
    \/ range
    \/ _in
    \/ within
    \/ and
    \/ or
    \/ return

Spec == Init /\ [][Next]_vars

\* ------------------------------------------------- what the claims speak of

\* The rule being evaluated, as it was written.
rc == plan[call].rc
Done == pc = "done"

\* The rule is exactly one relation of the given kind, nothing after it.
Exactly(kind) == Len(rc.rels) = 1 /\ rc.rels[1].kind = kind /\ rc.tail = <<>>
rel1 == rc.rels[1]

\* value(expression) for operand x: the operand without its fraction, or
\* its remainder by m; "n mod 0" has no value (it equals nothing).
HasValue(m) == m # 0
Value(m, x) == IF m = -1 THEN x.whole ELSE x.whole % m
Equals(m, x, d) == HasValue(m) /\ Value(m, x) = d
Within(m, x, l, r) == HasValue(m) /\ Value(m, x) \in l..r

IsBool(v, b) == v.t = "bool" /\ v.v = b
Definite(v) == v.t = "bool"

\* C1: a rule "<expression> is d" evaluates to value(expression) = d, and
\* with "not" to the opposite; "n mod 10 is 1 and n is not 11" is true for
\* 21 and false for 11.
C1_IsEvaluatesEquality ==
    /\ (Done /\ Exactly("is")) =>
          IsBool(result, Equals(rel1.m, number, rel1.d) # rel1.neg)
    /\ (Done /\ rc = Russian) => IsBool(result, number.whole = 21)

\* C2: "<expression> in L..R" is true exactly when value(expression) is in
\* L..R, and "<expression> not in L..R" exactly when it is not.
C2_InIsMembershipXorNegated ==
    (Done /\ Exactly("in")) =>
        IsBool(result, Within(rel1.m, number, rel1.l, rel1.r) # rel1.neg)

\* C3: the outcome is a definite boolean only when the cursor has reached
\* the end of the rule; a rule that does not parse, or that leaves trailing
\* characters, evaluates to the indeterminate outcome.
C3_DefiniteOnlyWhenConsumed ==
    Done =>
        /\ Definite(result) => pos = Len(rule)
        /\ rc.tail # <<>> => IsNull(result)
        /\ rel1.kind = "junk" => IsNull(result)

\* The right operand of a two-relation rule is indeterminate: it is no
\* condition, or a "within" whose expression value is outside its range.
RightIndeterminate ==
    /\ Len(rc.rels) = 2
    /\ rc.rels[1].kind # "junk"
    /\ \/ rc.rels[2].kind = "junk"
       \/ /\ rc.rels[2].kind = "within"
          /\ ~Within(rc.rels[2].m, number, rc.rels[2].l, rc.rels[2].r)

\* C4: "R and C" and "R or C" with C indeterminate evaluate to the
\* indeterminate outcome, whatever R alone evaluates to.
C4_RightFailureNotMasked == (Done /\ RightIndeterminate) => IsNull(result)

\* C5: a rule that is exactly "<expression> within L..R" evaluates to true
\* when value(expression) is in L..R and to the indeterminate outcome, never
\* to false, when it is not.
C5_WithinTrueOrIndeterminate ==
    (Done /\ Exactly("within")) =>
        IF Within(rel1.m, number, rel1.l, rel1.r)
        THEN IsBool(result, TRUE)
        ELSE IsNull(result)

C5_Witness ==
    /\ Done /\ Exactly("within") /\ IsNull(result)
    /\ ~Within(rel1.m, number, rel1.l, rel1.r) /\ rel1.l <= rel1.r
    /\ HasValue(rel1.m)

\* The integers l..r in ascending order, as an array.
Ascending(l, r) == Arr([k \in 1..(r - l + 1) |-> Num(l + k - 1)])

\* range has just returned an array to the sequence that called it.
RangeReturned ==
    /\ pc = "ret" /\ stack # <<>> /\ Top.p = "sequence"
    /\ Top.items[Len(Top.res) + 1] = "range"
    /\ ~IsNull(ret)

\* C7: "L..R" yields exactly the integers from L to R in ascending order,
\* and the empty list when L > R; "n in L..R" with L > R is false, not
\* indeterminate, for every operand.
C7_RangeAscendingOrEmpty ==
    /\ (RangeReturned /\ Len(rc.rels) = 1) =>
          /\ ret = Ascending(rel1.l, rel1.r)
          /\ rel1.l > rel1.r => ret.v = <<>>
    /\ (Done /\ Exactly("in") /\ ~rel1.neg /\ rel1.l > rel1.r) =>
          IsBool(result, FALSE)

C7_Witness ==
    /\ Done /\ Exactly("in") /\ ~rel1.neg /\ rel1.l > rel1.r
    /\ IsBool(result, FALSE) /\ global_i = Num(rel1.l)

\* C9: an invocation that returns failure leaves the cursor where it was
\* when the invocation began.
C9_FailureRestoresCursor ==
    [][(Len(stack') < Len(stack) /\ IsNull(ret')) => pos' = Top.orig]_vars

\* ----------------------------------------------- several calls in a row

\* The caller evaluates the next rule of its plan.  Everything a call
\* declares is new; only the global i is the one the last call left.
NextCall ==
    /\ pc = "done" /\ call < Len(plan)
    /\ call' = call + 1
    /\ rule' = Render(plan[call + 1].rc)
    /\ number' = plan[call + 1].number
    /\ pc' = "ready"
    /\ UNCHANGED <<plan, hist, pos, global_i, stack, ret, result>>

Only(q) == Rule(<<q>>, <<>>, <<>>)

\* R, then C, then "R op C", all for the same operand.
PairPlans ==
    {<<Input(Only(q[1]), q[4]), Input(Only(q[2]), q[4]),
       Input(Rule(<<q[1], q[2]>>, <<q[3]>>, <<>>), q[4])>> :
        q \in Atoms \X Atoms \X Ops \X WholeOperands}

\* a, b, c, then "a op1 b op2 c", all for the same operand.
ChainAtoms == {Rel("is", FALSE, -1, 1, 0, 0), Rel("is", TRUE, -1, MaxDigit, 0, 0)}
TriplePlans ==
    {<<Input(Only(q[1]), q[6]), Input(Only(q[2]), q[6]), Input(Only(q[3]), q[6]),
       Input(Rule(<<q[1], q[2], q[3]>>, <<q[4], q[5]>>, <<>>), q[6])>> :
        q \in ChainAtoms \X ChainAtoms \X ChainAtoms \X Ops \X Ops \X WholeOperands}

\* A call, then up to MaxEarlier other calls, then the first call again.
EarlierInputs ==
    {Input(Only(Rel("in", FALSE, -1, 0, 0, MaxDigit)), Operand(0, 0)),
     Input(Only(Rel("within", FALSE, -1, 0, 1, MaxDigit)), Operand(0, 0)),
     Input(Only(Junk), Operand(1, 0))}
EarlierCalls ==
    UNION {[1..k -> EarlierInputs] : k \in 0..MaxEarlier}
RepeatedRules ==
    {Only(q) : q \in Atoms \cup {Junk}}
      \cup {Rule(<<Rel("within", FALSE, -1, 0, 1, MaxDigit), q[1]>>, <<q[2]>>, <<>>) :
              q \in (Atoms \cup {Junk}) \X Ops}
RepeatPlans ==
    {<<Input(q[1], q[2])>> \o q[3] \o <<Input(q[1], q[2])>> :
        q \in RepeatedRules \X WholeOperands \X EarlierCalls}

InitCalls == \E p \in PairPlans \cup TriplePlans \cup RepeatPlans : InitPlan(p)

NextCalls == Next \/ NextCall

SpecCalls == InitCalls /\ [][NextCalls]_vars

AllCallsMade == Done /\ call = Len(plan)
Last == plan[Len(plan)]

\* The plan is: each relation of a chain alone, then the whole chain.
IsComposition ==
    /\ Len(Last.rc.rels) = Len(plan) - 1
    /\ Last.rc.tail = <<>>
    /\ \A k \in 1..(Len(plan) - 1) :
          plan[k] = Input(Only(Last.rc.rels[k]), Last.number)

\* The chain's value when its relations have the values vals and "and" and
\* "or" group to the right.
RECURSIVE RightGrouped(_, _)
RightGrouped(vals, ops) ==
    IF Len(vals) = 1 THEN vals[1]
    ELSE IF ops[1] = "and" THEN vals[1] /\ RightGrouped(Tail(vals), Tail(ops))
    ELSE vals[1] \/ RightGrouped(Tail(vals), Tail(ops))

\* C6: a fully consumed "R and C" ("R or C") whose R and C evaluate to
\* definite booleans evaluates to value(R) AND (OR) value(C); chains group
\* to the right, "a and b or c" as a AND (b OR c), "a or b and c" as
\* a OR (b AND c).
C6_AndOrCombineRightGrouped ==
    (/\ AllCallsMade /\ IsComposition
     /\ \A k \in 1..(Len(plan) - 1) : Definite(hist[k])
     /\ pos = Len(rule))
    => IsBool(result,
              RightGrouped([k \in 1..(Len(plan) - 1) |-> hist[k].v], Last.rc.ops))

\* "a and b or c" where grouping to the left would give another value.
C6_Witness ==
    /\ AllCallsMade /\ IsComposition /\ Len(plan) = 4
    /\ Last.rc.ops = <<"and", "or">>
    /\ IsBool(hist[1], FALSE) /\ IsBool(hist[3], TRUE)
    /\ pos = Len(rule) /\ IsBool(result, FALSE)

SameValue(a, b) == a.t = b.t /\ (a.t = "bool" => a.v = b.v)

\* C8: after any earlier calls, a call returns what the same call returned
\* when it was made first.
C8_EarlierCallsDoNotMatter ==
    \A j \in 1..Len(hist) : plan[j] = plan[1] => SameValue(hist[j], hist[1])

\* The first call again, after a call that moved the cursor and wrote i.
C8_Witness ==
    /\ AllCallsMade /\ Len(plan) = 3 /\ plan[3] = plan[1] /\ plan[2] # plan[1]
    /\ Definite(hist[1]) /\ Definite(hist[3])
    /\ global_i # Undefined

\* ---------------------------------------------------------- termination

\* The code is sequential and never waits: a step that can be taken is taken.
SpecLive == Init /\ [][Next]_vars /\ WF_vars(Next)

\* Each successful iteration of the repetition over the optional "not" has
\* consumed at least one character.
RepetitionConsumes ==
    (Running("nOrMore") /\ pc = "ret" /\ ~IsNull(ret)) =>
        pos > Top.orig + Len(Top.res)

\* "and" and "or" enter condition again only with the cursor strictly after
\* the place where their own sequence began.
RecursionAdvances ==
    \A k \in 1..(Len(stack) - 1) :
        (stack[k].p = "condition" /\ stack[k + 1].p = "sequence") =>
            stack[k].orig > stack[k + 1].orig

\* C10: every evaluation eventually returns: the repetition consumes a
\* character per iteration, condition is entered again only after the
\* cursor has advanced, and the cursor never exceeds the rule's length.
C10_EvaluationReturns ==
    /\ <>Done
    /\ [](RepetitionConsumes /\ RecursionAdvances /\ pos <= Len(rule))

\* A returned evaluation that repeated "not" and entered condition again.
C10_Witness ==
    /\ Done /\ Len(rc.rels) = 2 /\ rc.rels[2].kind = "is" /\ rc.rels[2].neg
    /\ pos = Len(rule) /\ Definite(result)

====
